---------------------------- MODULE Spec2Model ----------------------------
(* Model of the checkers components of three-svelte-demo.                  *)
(*                                                                         *)
(* The multi-capture component (src/unnamed/part_001) is modelled as a     *)
(* state machine: its state is boardConfig (size and the piece list),      *)
(* selectedPiece, validMoves, highlightedSquares and currentPlayer; its    *)
(* one handler is onCanvasClick, whose input is the object the click ray   *)
(* hits first: a highlight mesh, a piece mesh, or anything else.           *)
(*                                                                         *)
(* The drag-and-drop component (src/lib/components/three/Canvas.svelte)    *)
(* is modelled from its props width and height and the piece meshes its    *)
(* addPieces puts in the scene, one loop iteration per step, followed by   *)
(* its mouse handlers, one event per step.                                 *)
(*                                                                         *)
(* The component the page mounts (src/lib/components/checkers/             *)
(* Checkers.svelte) and the extracted rules (utils/rules.ts) are modelled  *)
(* on the same state as the multi-capture component.                       *)
EXTENDS Integers, Sequences, FiniteSets, TLC

VARIABLES
    size,               \* boardConfig.size: [x |-> width, y |-> height]
    pieces,             \* boardConfig.pieces: sequence of Piece records
    selectedPiece,      \* id of the selected Piece, NoPiece for null
    validMoves,         \* sequence of Positions
    highlightedSquares, \* positions of the highlight meshes, in push order
    currentPlayer,      \* colour of the player to move
    lastClick,          \* history: what the last click hit (kind, and the colour
                        \* of a piece hit) and did (the piece moved, by capture?)
    logMisses,          \* history: whether a click that selects and moves nothing
                        \* is recorded in lastClick (fixed by the initial state)
    turnLog,            \* history: the commits made so far in the current turn
                        \* and the opponent pieces on the board when it began
    width,              \* Canvas.svelte: prop width, in squares
    height,             \* Canvas.svelte: prop height, in squares
    scenePieces,        \* Canvas.svelte: the piece meshes added to the scene, in
                        \* order; positions are in half squares (twice x and z)
    addPiecesAt,        \* Canvas.svelte: the loop of addPieces being run and its
                        \* counters i and j
    isPieceLifted,      \* Canvas.svelte: a piece is lifted above the board
    originalPosition,   \* Canvas.svelte: where the lifted piece stood, NoPosition
                        \* for null
    isMouseDown,        \* Canvas.svelte: a button press is being handled
    dragLog             \* history: the mouse events handled so far and the
                        \* index in scenePieces of the piece the last
                        \* mouse-down lifted

vars == <<size, pieces, selectedPiece, validMoves, highlightedSquares,
          currentPlayer, lastClick, logMisses, turnLog,
          width, height, scenePieces, addPiecesAt,
          isPieceLifted, originalPosition, isMouseDown, dragLog>>

\* The drag state of the Canvas.svelte component.
dragState == <<isPieceLifted, originalPosition, isMouseDown, dragLog>>

\* The state of the Canvas.svelte component.
canvasState == <<width, height, scenePieces, addPiecesAt, dragState>>

game == <<size, pieces, selectedPiece, validMoves, highlightedSquares,
          currentPlayer>>

-----------------------------------------------------------------------------
(* Program constants *)

Red == 16711680        \* 0xff0000

Blue == 255            \* 0x0000ff

colorA == 255          \* Canvas.svelte: 0x0000ff

colorB == 16711680     \* Canvas.svelte: 0xff0000

\* Rows addPieces fills for each colour.
PieceRows == 3

\* Canvas.svelte: default of the props width and height.
DefaultSide == 8

RedKingRow == 7

BlueKingRow == 0

NoPiece == 0           \* null / undefined

(* Bounds of the model *)

\* Most pieces placed on a board.
MaxPieces == 3

\* Most pieces placed on the eight-row board.
MaxPiecesTall == 1

\* Most pieces placed on a board when the clicks that change nothing are
\* recorded.
MaxPiecesMisses == 2

\* Most pieces placed on a board when their types vary.
MaxPiecesTyped == 2

\* Least and most squares on a side of the Canvas.svelte board.
MinSide == 4

MaxSide == 8

\* Boards: a wide one, where a capture chain can turn back from the far row,
\* and one with the eight rows the promotion test of movePiece names.
\* Mouse events followed after the mount of Canvas.svelte.
MaxMouseEvents == 4

\* The boards Canvas.svelte is driven on.
DragBoards == { [width |-> 4, height |-> 8] }

BoardSizes == { [x |-> 5, y |-> 3], [x |-> 3, y |-> 8] }

MaxPiecesOn(sz, most) == IF sz.y > 5 THEN MaxPiecesTall ELSE most

PieceTypes == { "checker" }

\* Piece types of the placements with a type the rules do not support.
AnyPieceTypes == { "checker", "pawn" }

-----------------------------------------------------------------------------
(* Helpers over the piece list *)

Pos(px, py) == [x |-> px, y |-> py]

Abs(n) == IF n < 0 THEN -n ELSE n

Min(S) == CHOOSE m \in S : \A n \in S : m <= n

\* Array.prototype.find on boardConfig.pieces by coordinate: the index of the
\* first piece standing on (px, py), 0 when there is none (undefined).
find(ps, px, py) ==
    LET hit == { i \in DOMAIN ps : ps[i].position.x = px /\ ps[i].position.y = py }
    IN  IF hit = {} THEN 0 ELSE Min(hit)

\* boardConfig.pieces.find((p) => p.id === id): index of the piece, 0 if none.
findById(ps, id) ==
    LET hit == { i \in DOMAIN ps : ps[i].id = id }
    IN  IF hit = {} THEN 0 ELSE Min(hit)

\* Mutant of some: the row is compared with the column.
someMutant(ps, px, py) ==
    \E i \in DOMAIN ps : ps[i].position.x = px /\ ps[i].position.x = py

\* Array.prototype.some on boardConfig.pieces by coordinate.
some(ps, px, py) ==
    \E i \in DOMAIN ps : ps[i].position.x = px /\ ps[i].position.y = py

\* boardConfig.pieces.splice(index, 1)
splice(ps, index) ==
    [k \in 1..(Len(ps) - 1) |-> IF k < index THEN ps[k] ELSE ps[k + 1]]

-----------------------------------------------------------------------------
(* Move generation: getCheckerMovementRules / getCaptureMoves *)

\* Mutant of directions: a non-king is given the backward diagonals too.
directionsMutant(piece) ==
    << Pos(1, 1), Pos(-1, 1), Pos(1, -1), Pos(-1, -1) >>

\* The directions array built by allowedMoves.
directions(piece) ==
    LET isRedPlayer == piece.color = Red
        isKing == piece.king
        fwd == IF isRedPlayer THEN 1 ELSE -1
    IN  IF isKing
        THEN << Pos(1, 1), Pos(-1, 1), Pos(1, -1), Pos(-1, -1) >>
        ELSE << Pos(1, fwd), Pos(-1, fwd) >>

\* Keeps the entries of a sequence of [ok, pos] records that are ok, in order
\* (the moves.push calls of one forEach pass).
pushed(cands) ==
    LET sel == SelectSeq(cands, LAMBDA c : c.ok)
    IN  [k \in DOMAIN sel |-> sel[k].pos]

\* Mutant of captureInDirection: the colour of the jumped piece is not tested.
captureInDirectionMutant(piece, ps, sz, dir) ==
    LET adjacentX == piece.position.x + dir.x
        adjacentY == piece.position.y + dir.y
        occupiedPiece == find(ps, adjacentX, adjacentY)
        jumpX == adjacentX + dir.x
        jumpY == adjacentY + dir.y
    IN  [ ok  |-> /\ occupiedPiece # 0
                  /\ jumpX >= 0 /\ jumpX < sz.x
                  /\ jumpY >= 0 /\ jumpY < sz.y
                  /\ ~some(ps, jumpX, jumpY),
          pos |-> Pos(jumpX, jumpY) ]

\* One direction of getCaptureMoves: the landing square and whether it is pushed.
captureInDirection(piece, ps, sz, dir) ==
    LET adjacentX == piece.position.x + dir.x
        adjacentY == piece.position.y + dir.y
        occupiedPiece == find(ps, adjacentX, adjacentY)
        jumpX == adjacentX + dir.x
        jumpY == adjacentY + dir.y
    IN  [ ok  |-> /\ occupiedPiece # 0
                  /\ piece.color # ps[occupiedPiece].color
                  /\ jumpX >= 0 /\ jumpX < sz.x
                  /\ jumpY >= 0 /\ jumpY < sz.y
                  /\ ~some(ps, jumpX, jumpY),
          pos |-> Pos(jumpX, jumpY) ]

getCaptureMoves(piece, ps, sz, dirs) ==
    pushed([k \in DOMAIN dirs |-> captureInDirection(piece, ps, sz, dirs[k])])

\* Mutant of stepInDirection: the board's edges are not tested.
stepInDirectionOffBoard(piece, ps, sz, dir) ==
    LET adjacentX == piece.position.x + dir.x
        adjacentY == piece.position.y + dir.y
    IN  [ ok  |-> find(ps, adjacentX, adjacentY) = 0,
          pos |-> Pos(adjacentX, adjacentY) ]

\* Mutant of stepInDirection: the step keeps the row.
stepInDirectionSideways(piece, ps, sz, dir) ==
    LET adjacentX == piece.position.x + dir.x
        adjacentY == piece.position.y
    IN  [ ok  |-> /\ adjacentX >= 0 /\ adjacentX < sz.x
                  /\ adjacentY >= 0 /\ adjacentY < sz.y
                  /\ find(ps, adjacentX, adjacentY) = 0,
          pos |-> Pos(adjacentX, adjacentY) ]

\* Mutant of stepInDirection: the occupancy test is missing.
stepInDirectionMutant(piece, ps, sz, dir) ==
    LET adjacentX == piece.position.x + dir.x
        adjacentY == piece.position.y + dir.y
    IN  [ ok  |-> /\ adjacentX >= 0 /\ adjacentX < sz.x
                  /\ adjacentY >= 0 /\ adjacentY < sz.y,
          pos |-> Pos(adjacentX, adjacentY) ]

\* One direction of the non-capturing branch of allowedMoves.
stepInDirection(piece, ps, sz, dir) ==
    LET adjacentX == piece.position.x + dir.x
        adjacentY == piece.position.y + dir.y
    IN  [ ok  |-> /\ adjacentX >= 0 /\ adjacentX < sz.x
                  /\ adjacentY >= 0 /\ adjacentY < sz.y
                  /\ find(ps, adjacentX, adjacentY) = 0,
          pos |-> Pos(adjacentX, adjacentY) ]

getStepMoves(piece, ps, sz, dirs) ==
    pushed([k \in DOMAIN dirs |-> stepInDirection(piece, ps, sz, dirs[k])])

\* Mutant of allowedMoves: the steps are returned along with the captures.
allowedMovesMutant(piece, ps, sz) ==
    LET dirs == directions(piece)
    IN  getCaptureMoves(piece, ps, sz, dirs) \o getStepMoves(piece, ps, sz, dirs)

allowedMoves(piece, ps, sz) ==
    LET dirs == directions(piece)
        captureMoves == getCaptureMoves(piece, ps, sz, dirs)
    IN  IF Len(captureMoves) > 0
        THEN captureMoves
        ELSE getStepMoves(piece, ps, sz, dirs)

\* getMovementRulesForPiece: TRUE when rules are returned, FALSE when it throws
\* 'Unsupported piece type'.
getMovementRulesForPiece(piece) == piece.type = "checker"

-----------------------------------------------------------------------------
(* utils/rules.ts: the rules extracted into a module.  getCheckerMovementRules *)
(* closes over the boardConfig object it is given; the object's piece list *)
(* is mutated in place, so the rules read the list as it is when called.   *)

\* Mutant of directionsR: every non-king moves towards +y.
directionsRMutant(piece) ==
    LET isKing == piece.king
    IN  IF isKing
        THEN << Pos(1, 1), Pos(-1, 1), Pos(1, -1), Pos(-1, -1) >>
        ELSE << Pos(1, 1), Pos(-1, 1) >>

\* The directions array of allowedMoves in rules.ts.
directionsR(piece) ==
    LET isRedPlayer == piece.color = Red
        isKing == piece.king
    IN  IF isKing
        THEN << Pos(1, 1), Pos(-1, 1), Pos(1, -1), Pos(-1, -1) >>
        ELSE << Pos(1, IF isRedPlayer THEN 1 ELSE -1),
                Pos(-1, IF isRedPlayer THEN 1 ELSE -1) >>

\* One direction of getCaptureMoves in rules.ts.
captureInDirectionR(piece, boardConfig, dir) ==
    LET adjacentX == piece.position.x + dir.x
        adjacentY == piece.position.y + dir.y
        occupiedPiece == find(boardConfig.pieces, adjacentX, adjacentY)
        jumpX == adjacentX + dir.x
        jumpY == adjacentY + dir.y
    IN  [ ok  |-> /\ occupiedPiece # 0
                  /\ piece.color # boardConfig.pieces[occupiedPiece].color
                  /\ jumpX >= 0
                  /\ jumpX < boardConfig.size.x
                  /\ jumpY >= 0
                  /\ jumpY < boardConfig.size.y
                  /\ ~some(boardConfig.pieces, jumpX, jumpY),
          pos |-> Pos(jumpX, jumpY) ]

getCaptureMovesR(piece, boardConfig, dirs) ==
    pushed([k \in DOMAIN dirs |-> captureInDirectionR(piece, boardConfig, dirs[k])])

\* One direction of the non-capturing loop of allowedMoves in rules.ts.
stepInDirectionR(piece, boardConfig, dir) ==
    LET adjacentX == piece.position.x + dir.x
        adjacentY == piece.position.y + dir.y
    IN  [ ok  |-> /\ adjacentX >= 0
                  /\ adjacentX < boardConfig.size.x
                  /\ adjacentY >= 0
                  /\ adjacentY < boardConfig.size.y
                  /\ find(boardConfig.pieces, adjacentX, adjacentY) = 0,
          pos |-> Pos(adjacentX, adjacentY) ]

\* allowedMoves of the rules returned by getCheckerMovementRules({ boardConfig }).
allowedMovesR(piece, boardConfig) ==
    LET dirs == directionsR(piece)
        captureMoves == getCaptureMovesR(piece, boardConfig, dirs)
    IN  IF Len(captureMoves) > 0
        THEN captureMoves
        ELSE pushed([k \in DOMAIN dirs |-> stepInDirectionR(piece, boardConfig, dirs[k])])

-----------------------------------------------------------------------------
(* movePiece *)

\* Mutant of otherPlayer: the player is not switched.
otherPlayerMutant(player) == player

otherPlayer(player) == IF player = Red THEN Blue ELSE Red

\* Index of the piece on the jumped square, 0 when the move is no capture.
capturedIndex(ps, piece, newPosition) ==
    LET deltaX == newPosition.x - piece.position.x
        deltaY == newPosition.y - piece.position.y
    IN  IF Abs(deltaX) = 2 /\ Abs(deltaY) = 2
        THEN find(ps, piece.position.x + deltaX \div 2, piece.position.y + deltaY \div 2)
        ELSE 0

\* Mutant of removePiece: the piece stays in the list.
removePieceMutant(ps, index) == ps

\* removePiece on boardConfig.pieces.
removePiece(ps, index) == IF index > 0 THEN splice(ps, index) ELSE ps

\* The king-promotion test of movePiece.
promotes(piece, newPosition) ==
    \/ piece.color = Red /\ newPosition.y = RedKingRow
    \/ piece.color = Blue /\ newPosition.y = BlueKingRow

\* Mutant of movedPiece: the king flag is assigned the promotion test.
movedPieceMutant(piece, newPosition) ==
    [piece EXCEPT !.position = newPosition,
                  !.king = promotes(piece, newPosition)]

\* The moved piece after the position update and the promotion.
movedPiece(piece, newPosition) ==
    [piece EXCEPT !.position = newPosition,
                  !.king = @ \/ promotes(piece, newPosition)]

\* boardConfig.pieces after the capture removal, the position update and the
\* promotion of movePiece.
piecesAfterMove(ps, id, newPosition) ==
    LET piece == ps[findById(ps, id)]
        rest == removePiece(ps, capturedIndex(ps, piece, newPosition))
    IN  [k \in DOMAIN rest |->
            IF rest[k].id = id THEN movedPiece(piece, newPosition) ELSE rest[k]]

\* Mutant of furtherMoves: no continuation is looked for.
furtherMovesMutant(piece, ps, sz) == << >>

\* Mutant of furtherMoves: the moves are generated from the square the piece
\* stood on before the move.
furtherMovesStale(piece, ps, sz) ==
    allowedMoves(pieces[findById(pieces, piece.id)], ps, sz)

\* The continuation test of movePiece: the moves highlighted for the moved
\* piece after a capture.
furtherMoves(piece, ps, sz) == allowedMoves(piece, ps, sz)

\* History: the log of a turn of `player` that begins on the pieces ps.
turnStart(ps, player) ==
    [commits |-> 0,
     opponents |-> Cardinality({ i \in DOMAIN ps : ps[i].color # player })]

\* Mutant of movePiece: the piece stays selected when the turn is switched.
movePieceMutant(id, newPosition) ==
    LET piece == pieces[findById(pieces, id)]
        isCaptureMove == capturedIndex(pieces, piece, newPosition) # 0
        after == piecesAfterMove(pieces, id, newPosition)
        moved == after[findById(after, id)]
        further == IF isCaptureMove /\ getMovementRulesForPiece(moved)
                   THEN furtherMoves(moved, after, size)
                   ELSE << >>
    IN  /\ pieces' = after
        /\ validMoves' = further
        /\ highlightedSquares' = further
        /\ IF isCaptureMove /\ (~getMovementRulesForPiece(moved) \/ Len(further) > 0)
           THEN UNCHANGED currentPlayer
           ELSE currentPlayer' = otherPlayer(currentPlayer)
        /\ lastClick' = [kind |-> "square", moved |-> id, color |-> piece.color,
                         capture |-> isCaptureMove]
        /\ turnLog' = IF currentPlayer' = currentPlayer
                      THEN [turnLog EXCEPT !.commits = @ + 1]
                      ELSE turnStart(after, currentPlayer')
        /\ UNCHANGED <<size, selectedPiece, logMisses, canvasState>>

movePiece(id, newPosition) ==
    LET piece == pieces[findById(pieces, id)]
        isCaptureMove == capturedIndex(pieces, piece, newPosition) # 0
        after == piecesAfterMove(pieces, id, newPosition)
        moved == after[findById(after, id)]
        further == IF isCaptureMove /\ getMovementRulesForPiece(moved)
                   THEN furtherMoves(moved, after, size)
                   ELSE << >>
    IN  /\ pieces' = after
        /\ validMoves' = further
        /\ highlightedSquares' = further
        /\ IF isCaptureMove /\ (~getMovementRulesForPiece(moved) \/ Len(further) > 0)
           THEN \* return (or throw) before the turn is switched
                UNCHANGED <<selectedPiece, currentPlayer>>
           ELSE /\ selectedPiece' = NoPiece
                /\ currentPlayer' = otherPlayer(currentPlayer)
        /\ lastClick' = [kind |-> "square", moved |-> id, color |-> piece.color,
                         capture |-> isCaptureMove]
        /\ turnLog' = IF currentPlayer' = currentPlayer
                      THEN [turnLog EXCEPT !.commits = @ + 1]
                      ELSE turnStart(after, currentPlayer')
        /\ UNCHANGED <<size, logMisses, canvasState>>

-----------------------------------------------------------------------------
(* onCanvasClick *)

\* Mutant of maySelect: the colour is not compared.
maySelectMutant(piece, player) == piece.color = piece.color

\* Mutant of maySelect: while a piece of the player has a capture, only a
\* piece with a capture is selected.
maySelectBoardWide(piece, player) ==
    /\ piece.color = player
    /\ ( \E j \in DOMAIN pieces :
            /\ pieces[j].color = player
            /\ Len(getCaptureMoves(pieces[j], pieces, size, directions(pieces[j]))) > 0 )
       => Len(getCaptureMoves(piece, pieces, size, directions(piece))) > 0

\* The colour test of the selection branch.
maySelect(piece, player) == piece.color = player

\* Mutant of Miss: a click that selects and moves nothing passes the turn.
MissMutant(kind, color) ==
    /\ lastClick' = IF logMisses
                    THEN [kind |-> kind, moved |-> NoPiece, color |-> color,
                          capture |-> FALSE]
                    ELSE lastClick
    /\ currentPlayer' = otherPlayer(currentPlayer)
    /\ UNCHANGED <<size, pieces, selectedPiece, validMoves, highlightedSquares,
                   logMisses, turnLog, canvasState>>

\* A click that selects and moves nothing: only the history can change.
Miss(kind, color) ==
    /\ lastClick' = IF logMisses
                    THEN [kind |-> kind, moved |-> NoPiece, color |-> color,
                          capture |-> FALSE]
                    ELSE lastClick
    /\ UNCHANGED <<game, logMisses, turnLog, canvasState>>

\* The click ray hits the k-th highlight mesh.
ClickSquare(k) ==
    /\ k \in DOMAIN highlightedSquares
    /\ IF selectedPiece # NoPiece
       THEN movePiece(selectedPiece, highlightedSquares[k])
       ELSE Miss("board", 0)

\* Mutant of ClickPiece: the selected piece is made a king.
ClickPieceMutant(i) ==
    /\ i \in DOMAIN pieces
    /\ IF maySelect(pieces[i], currentPlayer)
       THEN /\ lastClick' = [kind |-> "piece", moved |-> NoPiece,
                             color |-> pieces[i].color, capture |-> FALSE]
            /\ selectedPiece' = pieces[i].id
            /\ validMoves' = allowedMoves(pieces[i], pieces, size)
            /\ highlightedSquares' = validMoves'
            /\ pieces' = [pieces EXCEPT ![i].king = TRUE]
            /\ UNCHANGED <<size, currentPlayer, logMisses, turnLog, canvasState>>
       ELSE Miss("piece", pieces[i].color)

\* The click ray hits the mesh of the i-th piece.
ClickPiece(i) ==
    /\ i \in DOMAIN pieces
    /\ IF maySelect(pieces[i], currentPlayer)
       THEN /\ lastClick' = [kind |-> "piece", moved |-> NoPiece,
                             color |-> pieces[i].color, capture |-> FALSE]
            /\ selectedPiece' = pieces[i].id
            /\ IF getMovementRulesForPiece(pieces[i])
               THEN /\ validMoves' = allowedMoves(pieces[i], pieces, size)
                    /\ highlightedSquares' = validMoves'
               ELSE UNCHANGED <<validMoves, highlightedSquares>>
            /\ UNCHANGED <<size, pieces, currentPlayer, logMisses, turnLog, canvasState>>
       ELSE Miss("piece", pieces[i].color)

\* The click ray hits a board square, or nothing.
ClickElsewhere == Miss("board", 0)

-----------------------------------------------------------------------------
(* Checkers.svelte, the component the page mounts: the same state, rules   *)
(* without kings, and a click handler that ends the turn after every move. *)

\* One direction of allowedMoves in Checkers.svelte: a step onto an empty
\* square, else a jump over a piece of the other colour.
moveInDirectionCheckers(piece, ps, sz, dir) ==
    LET adjacentX == piece.position.x + dir.x
        adjacentY == piece.position.y + dir.y
        occupiedPiece == find(ps, adjacentX, adjacentY)
        jumpX == piece.position.x + dir.x * 2
        jumpY == piece.position.y + dir.y * 2
        inside == /\ adjacentX >= 0 /\ adjacentX < sz.x
                  /\ adjacentY >= 0 /\ adjacentY < sz.y
    IN  IF inside /\ occupiedPiece = 0
        THEN [ok |-> TRUE, pos |-> Pos(adjacentX, adjacentY)]
        ELSE [ ok  |-> /\ inside
                       /\ ps[occupiedPiece].color # piece.color
                       /\ jumpX >= 0 /\ jumpX < sz.x
                       /\ jumpY >= 0 /\ jumpY < sz.y
                       /\ ~some(ps, jumpX, jumpY),
               pos |-> Pos(jumpX, jumpY) ]

allowedMovesCheckers(piece, ps, sz) ==
    LET isRedPlayer == piece.color = Red
        dirs == << Pos(1, IF isRedPlayer THEN 1 ELSE -1),
                   Pos(-1, IF isRedPlayer THEN 1 ELSE -1) >>
    IN  pushed([k \in DOMAIN dirs |-> moveInDirectionCheckers(piece, ps, sz, dirs[k])])

\* boardConfig.pieces after movePiece of Checkers.svelte: the capture removal
\* and the position update; there is no promotion.
movePieceCheckers(ps, id, newPosition) ==
    LET piece == ps[findById(ps, id)]
        rest == removePiece(ps, capturedIndex(ps, piece, newPosition))
    IN  [k \in DOMAIN rest |->
            IF rest[k].id = id THEN [piece EXCEPT !.position = newPosition]
                               ELSE rest[k]]

\* Mutant of ClickSquareCheckers: after a capture the piece stays selected
\* and the turn is kept.
ClickSquareCheckersMutant(k) ==
    /\ k \in DOMAIN highlightedSquares
    /\ IF selectedPiece # NoPiece
       THEN LET piece == pieces[findById(pieces, selectedPiece)]
                isCaptureMove == capturedIndex(pieces, piece, highlightedSquares[k]) # 0
            IN  /\ pieces' = movePieceCheckers(pieces, selectedPiece, highlightedSquares[k])
                /\ validMoves' = << >>
                /\ highlightedSquares' = << >>
                /\ IF isCaptureMove
                   THEN /\ UNCHANGED <<selectedPiece, currentPlayer>>
                        /\ turnLog' = [turnLog EXCEPT !.commits = @ + 1]
                   ELSE /\ selectedPiece' = NoPiece
                        /\ currentPlayer' = otherPlayer(currentPlayer)
                        /\ turnLog' = turnStart(pieces', currentPlayer')
                /\ lastClick' = [kind |-> "square", moved |-> selectedPiece,
                                 color |-> piece.color, capture |-> isCaptureMove]
                /\ UNCHANGED <<size, logMisses, canvasState>>
       ELSE Miss("board", 0)

\* The click ray hits the k-th highlight mesh.
ClickSquareCheckers(k) ==
    /\ k \in DOMAIN highlightedSquares
    /\ IF selectedPiece # NoPiece
       THEN LET piece == pieces[findById(pieces, selectedPiece)]
                isCaptureMove == capturedIndex(pieces, piece, highlightedSquares[k]) # 0
            IN  /\ pieces' = movePieceCheckers(pieces, selectedPiece, highlightedSquares[k])
                /\ selectedPiece' = NoPiece
                /\ validMoves' = << >>
                /\ highlightedSquares' = << >>
                /\ currentPlayer' = otherPlayer(currentPlayer)
                /\ turnLog' = turnStart(pieces', currentPlayer')
                /\ lastClick' = [kind |-> "square", moved |-> selectedPiece,
                                 color |-> piece.color, capture |-> isCaptureMove]
                /\ UNCHANGED <<size, logMisses, canvasState>>
       ELSE Miss("board", 0)

\* The click ray hits the mesh of the i-th piece.
ClickPieceCheckers(i) ==
    /\ i \in DOMAIN pieces
    /\ IF pieces[i].color = currentPlayer
       THEN /\ lastClick' = [kind |-> "piece", moved |-> NoPiece,
                             color |-> pieces[i].color, capture |-> FALSE]
            /\ selectedPiece' = pieces[i].id
            /\ IF getMovementRulesForPiece(pieces[i])
               THEN /\ validMoves' = allowedMovesCheckers(pieces[i], pieces, size)
                    /\ highlightedSquares' = validMoves'
               ELSE UNCHANGED <<validMoves, highlightedSquares>>
            /\ UNCHANGED <<size, pieces, currentPlayer, logMisses, turnLog, canvasState>>
       ELSE Miss("piece", pieces[i].color)

-----------------------------------------------------------------------------
(* Canvas.svelte: addPieces *)

\* Twice the scene position { x: i - width / 2 + 0.5, z: j - height / 2 + 0.5 }.
squareCentre(i, j) == [x |-> 2 * i - width + 1, z |-> 2 * j - height + 1]

\* The mesh createPiece returns: its position and its userData.
createPiece(color, position) ==
    [position |-> position, color |-> color, isKing |-> FALSE, hasMoved |-> FALSE]

\* The body of both inner loops: a piece is added on (i, j) when i + j is odd.
addedAt(color, i, j) ==
    IF (i + j) % 2 # 0
    THEN Append(scenePieces, createPiece(color, squareCentre(i, j)))
    ELSE scenePieces

\* One iteration of the first pair of loops: i over the columns, j over the
\* first PieceRows rows.
AddPiecesFirst ==
    /\ addPiecesAt.loop = "first"
    /\ scenePieces' = addedAt(colorB, addPiecesAt.i, addPiecesAt.j)
    /\ addPiecesAt' =
          IF addPiecesAt.j + 1 < PieceRows
          THEN [addPiecesAt EXCEPT !.j = @ + 1]
          ELSE IF addPiecesAt.i + 1 < width
          THEN [addPiecesAt EXCEPT !.i = @ + 1, !.j = 0]
          ELSE [loop |-> "second", i |-> 0, j |-> height - PieceRows]
    /\ UNCHANGED <<game, lastClick, logMisses, turnLog, width, height, dragState>>

\* One iteration of the second pair of loops: j over the last PieceRows rows.
AddPiecesSecond ==
    /\ addPiecesAt.loop = "second"
    /\ scenePieces' = addedAt(colorA, addPiecesAt.i, addPiecesAt.j)
    /\ addPiecesAt' =
          IF addPiecesAt.j + 1 < height
          THEN [addPiecesAt EXCEPT !.j = @ + 1]
          ELSE IF addPiecesAt.i + 1 < width
          THEN [addPiecesAt EXCEPT !.i = @ + 1, !.j = height - PieceRows]
          ELSE [loop |-> "done", i |-> 0, j |-> 0]
    /\ UNCHANGED <<game, lastClick, logMisses, turnLog, width, height, dragState>>

\* No value: originalPosition is null.
NoPosition == [x |-> 0, z |-> 0]

\* The initialisers of the drag state: nothing lifted, no button down.
DragIdle ==
    /\ isPieceLifted = FALSE
    /\ originalPosition = NoPosition
    /\ isMouseDown = FALSE
    /\ dragLog = [events |-> 0, lifted |-> 0]

\* The Canvas component is not mounted: its props have their defaults and
\* its scene is empty.
CanvasUnmounted ==
    /\ width = DefaultSide
    /\ height = DefaultSide
    /\ scenePieces = << >>
    /\ addPiecesAt = [loop |-> "unmounted", i |-> 0, j |-> 0]
    /\ DragIdle

-----------------------------------------------------------------------------
(* Canvas.svelte: the mouse handlers.  selectedPiece is the index in        *)
(* scenePieces of the selected mesh, highlightedSquares the positions of    *)
(* the highlighted square meshes.  Positions are in half squares, so one    *)
(* square is 2 and the board spans -width..width and -height..height.  The  *)
(* pointer of a mouse-move event is over the centre of a square.            *)

\* The prop turnTaking, at its default.
turnTaking == TRUE

isWithinBounds(move) ==
    move.x >= -width /\ move.x < width /\ move.z >= -height /\ move.z < height

isOccupied(position) ==
    \E k \in DOMAIN scenePieces :
        scenePieces[k].position = [x |-> position.x, z |-> position.z]

\* Index of the first piece at (x, z) that is not of the colour, 0 for undefined.
getOpponentPieceAt(x, z, color) ==
    LET found == { k \in DOMAIN scenePieces :
                     /\ scenePieces[k].position = [x |-> x, z |-> z]
                     /\ scenePieces[k].color # color }
    IN  IF found = {} THEN 0 ELSE CHOOSE k \in found : \A l \in found : k <= l

getPotentialMoves(x, z, isKing, movementDirection, hasMoved) ==
    IF isKing
    THEN << [x |-> x + 2, z |-> z + 2 * movementDirection],
            [x |-> x - 2, z |-> z + 2 * movementDirection],
            [x |-> x + 2, z |-> z - 2 * movementDirection],
            [x |-> x - 2, z |-> z - 2 * movementDirection] >>
    ELSE IF hasMoved
    THEN << [x |-> x + 2, z |-> z + 2 * movementDirection],
            [x |-> x - 2, z |-> z + 2 * movementDirection] >>
    ELSE << [x |-> x + 2, z |-> z + 2 * movementDirection],
            [x |-> x - 2, z |-> z + 2 * movementDirection],
            [x |-> x + 4, z |-> z + 4 * movementDirection],
            [x |-> x - 4, z |-> z + 4 * movementDirection] >>

getCaptureMovesCanvas(x, z, isKing, movementDirection) ==
    LET forward ==
          << [x |-> x + 4, z |-> z + 4 * movementDirection,
              captureX |-> x + 2, captureZ |-> z + 2 * movementDirection],
             [x |-> x - 4, z |-> z + 4 * movementDirection,
              captureX |-> x - 2, captureZ |-> z + 2 * movementDirection] >>
        backward ==
          << [x |-> x + 4, z |-> z - 4 * movementDirection,
              captureX |-> x + 2, captureZ |-> z - 2 * movementDirection],
             [x |-> x - 4, z |-> z - 4 * movementDirection,
              captureX |-> x - 2, captureZ |-> z - 2 * movementDirection] >>
    IN  IF isKing THEN forward \o backward ELSE forward

\* The moves addValidMoves pushes.
addValidMoves(moves) ==
    LET valid(move) == isWithinBounds(move) /\ ~isOccupied(move)
    IN  SelectSeq(moves, valid)

\* The moves addValidCaptures pushes.
addValidCaptures(moves, piece) ==
    LET valid(move) ==
          /\ isWithinBounds(move)
          /\ getOpponentPieceAt(move.captureX, move.captureZ, piece.color) # 0
          /\ ~isOccupied(move)
        kept == SelectSeq(moves, valid)
    IN  [k \in DOMAIN kept |-> [x |-> kept[k].x, z |-> kept[k].z]]

getLegalMoves(piece) ==
    LET movementDirection == IF piece.color = colorB THEN 1 ELSE -1
        potentialMoves == getPotentialMoves(piece.position.x, piece.position.z,
                                            piece.isKing, movementDirection,
                                            piece.hasMoved)
        captureMoves == getCaptureMovesCanvas(piece.position.x, piece.position.z,
                                              piece.isKing, movementDirection)
    IN  addValidMoves(potentialMoves) \o addValidCaptures(captureMoves, piece)

\* The centres of the square meshes createBoard adds.
squareCentres ==
    { squareCentre(i, j) : i \in 0..(width - 1), j \in 0..(height - 1) }

\* highlightedSquares after highlightLegalSquares(legalMoves): the squares
\* found at the moves.
highlightLegalSquares(legalMoves) ==
    LET isSquare(move) == move \in squareCentres
    IN  SelectSeq(legalMoves, isSquare)

createKing(color, position) ==
    [position |-> position, color |-> color, isKing |-> TRUE, hasMoved |-> FALSE]

\* The listeners are added at the end of onMount, after addPieces; at most
\* MaxMouseEvents events are followed.
listening == addPiecesAt.loop = "done" /\ dragLog.events < MaxMouseEvents

handled == [dragLog EXCEPT !.events = @ + 1]

handleMouseDown ==
    /\ listening
    /\ IF isMouseDown
       THEN /\ dragLog' = handled
            /\ UNCHANGED <<scenePieces, selectedPiece, highlightedSquares,
                           isPieceLifted, originalPosition, isMouseDown>>
       ELSE /\ isMouseDown' = TRUE
            /\ IF /\ selectedPiece # NoPiece
                  /\ ~(turnTaking /\ scenePieces[selectedPiece].color # currentPlayer)
               THEN /\ originalPosition' = scenePieces[selectedPiece].position
                    /\ isPieceLifted' = TRUE
                    /\ highlightedSquares' = highlightLegalSquares(
                          getLegalMoves(scenePieces[selectedPiece]))
                    /\ dragLog' = [handled EXCEPT !.lifted = selectedPiece]
               ELSE /\ dragLog' = handled
                    /\ UNCHANGED <<highlightedSquares, isPieceLifted, originalPosition>>
            /\ UNCHANGED <<scenePieces, selectedPiece>>
    /\ UNCHANGED <<size, pieces, validMoves, currentPlayer, lastClick, logMisses,
                   turnLog, width, height, addPiecesAt>>

\* scenePieces after the drop of the selected piece on targetSquare: the
\* opponent piece half way from originalPosition leaves the scene, the piece
\* is moved and marked, and on its last row it is replaced by a king.
dropped(targetSquare) ==
    LET piece == scenePieces[selectedPiece]
        capturedPiece == getOpponentPieceAt((targetSquare.x + originalPosition.x) \div 2,
                                            (targetSquare.z + originalPosition.z) \div 2,
                                            piece.color)
        moved == [piece EXCEPT !.position = targetSquare, !.hasMoved = TRUE]
        promote == /\ moved.position.z =
                        (IF moved.color = colorB THEN height - 1 ELSE -height + 1)
                   /\ ~moved.isKing
        kept == { k \in DOMAIN scenePieces :
                    k # capturedPiece /\ (promote => k # selectedPiece) }
        isKept(k) == k \in kept
        order == SelectSeq([k \in DOMAIN scenePieces |-> k], isKept)
        rest == [n \in DOMAIN order |->
                   IF order[n] = selectedPiece THEN moved ELSE scenePieces[order[n]]]
    IN  IF promote THEN Append(rest, createKing(moved.color, moved.position))
                   ELSE rest

handleMouseUp ==
    /\ listening
    /\ IF selectedPiece # NoPiece /\ isPieceLifted
       THEN LET piece == scenePieces[selectedPiece]
                near == { n \in DOMAIN highlightedSquares :
                            highlightedSquares[n] = piece.position }
                targetSquare ==
                    highlightedSquares[CHOOSE n \in near : \A m \in near : n <= m]
            IN  /\ IF near # {}
                   THEN /\ scenePieces' = dropped(targetSquare)
                        /\ currentPlayer' =
                              IF turnTaking
                              THEN (IF currentPlayer = colorB THEN colorA ELSE colorB)
                              ELSE currentPlayer
                   ELSE /\ scenePieces' =
                              IF originalPosition # NoPosition
                              THEN [scenePieces EXCEPT
                                      ![selectedPiece].position = originalPosition]
                              ELSE scenePieces
                        /\ UNCHANGED currentPlayer
                /\ highlightedSquares' = highlightLegalSquares(<< >>)
                /\ isPieceLifted' = FALSE
                /\ selectedPiece' = NoPiece
       ELSE UNCHANGED <<scenePieces, currentPlayer, highlightedSquares,
                        isPieceLifted, selectedPiece>>
    /\ isMouseDown' = FALSE
    /\ dragLog' = [handled EXCEPT !.lifted = 0]
    /\ UNCHANGED <<size, pieces, validMoves, lastClick, logMisses, turnLog,
                   width, height, addPiecesAt, originalPosition>>

\* The pieces the pick ray can hit first when the pointer is over the square
\* centre `point`: a piece standing there, or the lifted piece, which has
\* followed the pointer; 0 when the ray hits no piece.
firstHits(point) ==
    LET there == { k \in DOMAIN scenePieces : scenePieces[k].position = point }
        carried == IF isPieceLifted /\ selectedPiece # NoPiece
                   THEN {selectedPiece} ELSE {}
    IN  IF there \cup carried = {} THEN {0} ELSE there \cup carried

\* selectedPiece after handleHover, the ray hitting `hit` first.
handleHover(hit) ==
    IF hit # 0
    THEN (IF hit # selectedPiece THEN hit ELSE selectedPiece)
    ELSE (IF selectedPiece # NoPiece /\ ~isPieceLifted THEN NoPiece ELSE selectedPiece)

\* The mousemove listener: handleHover, then handleMouseMove, on one ray.
MouseMove(point, hit) ==
    /\ listening
    /\ point \in squareCentres
    /\ hit \in firstHits(point)
    /\ selectedPiece' = handleHover(hit)
    /\ scenePieces' =
          IF isPieceLifted /\ selectedPiece' # NoPiece
          THEN [scenePieces EXCEPT ![selectedPiece'].position = point]
          ELSE scenePieces
    /\ dragLog' = handled
    /\ UNCHANGED <<size, pieces, validMoves, highlightedSquares, currentPlayer,
                   lastClick, logMisses, turnLog, width, height, addPiecesAt,
                   isPieceLifted, originalPosition, isMouseDown>>

-----------------------------------------------------------------------------
(* Initial states: a board of one of BoardSizes with up to MaxPieces pieces *)
(* on distinct squares inside it, nothing selected, Red to move.            *)

Squares(sz) == { Pos(px, py) : px \in 0..(sz.x - 1), py \in 0..(sz.y - 1) }

\* The squares the page's placements use: (x + y) even.
StartSquares(sz) == { s \in Squares(sz) : (s.x + s.y) % 2 = 0 }

Key(sz, s) == s.y * sz.x + s.x

Placements(sz, n) ==
    { f \in [1..n -> StartSquares(sz)] :
        \A a, b \in 1..n : a < b => Key(sz, f[a]) < Key(sz, f[b]) }

InitBoard(sz, n, types) ==
    \E f \in Placements(sz, n) :
    \E col \in [1..n -> {Red, Blue}] :
    \E kg \in [1..n -> BOOLEAN] :
    \E ty \in [1..n -> types] :
        pieces = [k \in 1..n |->
                    [id |-> k, position |-> f[k], color |-> col[k],
                     type |-> ty[k], king |-> kg[k]]]

\* The component's state after construction, on a board with at most `most`
\* pieces (MaxPiecesTall on the eight-row board) of the given types.
InitStateOf(most, types) ==
    /\ size \in BoardSizes
    /\ \E n \in 1..MaxPiecesOn(size, most) : InitBoard(size, n, types)
    /\ selectedPiece = NoPiece
    /\ validMoves = << >>
    /\ highlightedSquares = << >>
    /\ currentPlayer = Red
    /\ lastClick = [kind |-> "none", moved |-> NoPiece, color |-> 0, capture |-> FALSE]
    /\ turnLog = turnStart(pieces, currentPlayer)
    /\ CanvasUnmounted

InitState(most) == InitStateOf(most, PieceTypes)

Init == InitState(MaxPieces) /\ logMisses = FALSE

InitTyped == InitStateOf(MaxPiecesTyped, AnyPieceTypes) /\ logMisses = FALSE

InitMisses == InitState(MaxPiecesMisses) /\ logMisses = TRUE

\* The 8x8 board with a red king on (2,4) and two blue pieces, kings or not,
\* on (3,5) and (5,7).
InitScenario ==
    /\ size = [x |-> 8, y |-> 8]
    /\ \E kg \in [2..3 -> BOOLEAN] :
          pieces = << [id |-> 1, position |-> Pos(2, 4), color |-> Red,
                       type |-> "checker", king |-> TRUE],
                      [id |-> 2, position |-> Pos(3, 5), color |-> Blue,
                       type |-> "checker", king |-> kg[2]],
                      [id |-> 3, position |-> Pos(5, 7), color |-> Blue,
                       type |-> "checker", king |-> kg[3]] >>
    /\ selectedPiece = NoPiece
    /\ validMoves = << >>
    /\ highlightedSquares = << >>
    /\ currentPlayer = Red
    /\ lastClick = [kind |-> "none", moved |-> NoPiece, color |-> 0, capture |-> FALSE]
    /\ logMisses = FALSE
    /\ turnLog = turnStart(pieces, currentPlayer)
    /\ CanvasUnmounted

\* Canvas.svelte at the call of addPieces in onMount, for a board of
\* MinSide..MaxSide squares a side; no checkers component is mounted.
InitCanvas ==
    /\ width \in MinSide..MaxSide
    /\ height \in MinSide..MaxSide
    /\ scenePieces = << >>
    /\ addPiecesAt = [loop |-> "first", i |-> 0, j |-> 0]
    /\ DragIdle
    /\ size = [x |-> 0, y |-> 0]
    /\ pieces = << >>
    /\ selectedPiece = NoPiece
    /\ validMoves = << >>
    /\ highlightedSquares = << >>
    /\ currentPlayer = colorA
    /\ lastClick = [kind |-> "none", moved |-> NoPiece, color |-> 0, capture |-> FALSE]
    /\ logMisses = FALSE
    /\ turnLog = turnStart(pieces, currentPlayer)

NextCanvas == AddPiecesFirst \/ AddPiecesSecond

\* The board the page passes to Checkers.svelte: one red checker and four
\* blue ones on the 8x8 board, none with a king flag.
PagePieces ==
    << [id |-> 1, position |-> Pos(1, 3), color |-> Red, type |-> "checker", king |-> FALSE],
       [id |-> 2, position |-> Pos(2, 4), color |-> Blue, type |-> "checker", king |-> FALSE],
       [id |-> 3, position |-> Pos(4, 6), color |-> Blue, type |-> "checker", king |-> FALSE],
       [id |-> 4, position |-> Pos(6, 6), color |-> Blue, type |-> "checker", king |-> FALSE],
       [id |-> 5, position |-> Pos(2, 6), color |-> Blue, type |-> "checker", king |-> FALSE] >>

InitPage ==
    /\ size = [x |-> 8, y |-> 8]
    /\ pieces = PagePieces
    /\ selectedPiece = NoPiece
    /\ validMoves = << >>
    /\ highlightedSquares = << >>
    /\ currentPlayer = Red
    /\ lastClick = [kind |-> "none", moved |-> NoPiece, color |-> 0, capture |-> FALSE]
    /\ logMisses = FALSE
    /\ turnLog = turnStart(pieces, currentPlayer)
    /\ CanvasUnmounted

NextCheckers ==
    \/ \E k \in 1..Len(highlightedSquares) : ClickSquareCheckers(k)
    \/ \E i \in 1..Len(pieces) : ClickPieceCheckers(i)
    \/ ClickElsewhere

Next ==
    \/ \E k \in 1..Len(highlightedSquares) : ClickSquare(k)
    \/ \E i \in 1..Len(pieces) : ClickPiece(i)
    \/ ClickElsewhere

Spec == Init /\ [][Next]_vars

\* Selections only: the move generator applied to every piece of the player
\* to move on every placement.
NextSelect == \E i \in 1..Len(pieces) : ClickPiece(i)

SpecSelect == Init /\ [][NextSelect]_vars

\* The same component on placements with pieces of an unsupported type.
SpecTyped == InitTyped /\ [][Next]_vars

\* Checkers.svelte as the page mounts it.
SpecCheckers == InitPage /\ [][NextCheckers]_vars

\* The same component with every click recorded, on the smaller placements.
SpecMisses == InitMisses /\ [][Next]_vars

\* The component on the board of the 8x8 capture scenario.
SpecScenario == InitScenario /\ [][Next]_vars

\* The set-up of the Canvas.svelte board.
SpecCanvas == InitCanvas /\ [][NextCanvas]_vars

\* Canvas.svelte mounted on one of DragBoards and then driven by the mouse.
InitDrag ==
    /\ InitCanvas
    /\ [width |-> width, height |-> height] \in DragBoards

NextDrag ==
    \/ AddPiecesFirst
    \/ AddPiecesSecond
    \/ handleMouseDown
    \/ handleMouseUp
    \/ \E point \in squareCentres :
          \E hit \in 0..Len(scenePieces) : MouseMove(point, hit)

SpecDrag == InitDrag /\ [][NextDrag]_vars

-----------------------------------------------------------------------------
(* The rules of the game as the specification states them, written without *)
(* the generator's operators.                                              *)

PieceOf(ps, id) == ps[findById(ps, id)]

OnBoard(ps, id) == findById(ps, id) # 0

Inside(sz, s) == s.x >= 0 /\ s.x < sz.x /\ s.y >= 0 /\ s.y < sz.y

Occupied(ps, s) == \E i \in DOMAIN ps : ps[i].position = s

OpponentAt(ps, p, s) == \E i \in DOMAIN ps : ps[i].position = s /\ ps[i].color # p.color

\* Forward is +y for red and -y for the other player.
Forward(color) == IF color = Red THEN 1 ELSE -1

AllowedDirs(p) ==
    IF p.king THEN { Pos(dx, dy) : dx \in {-1, 1}, dy \in {-1, 1} }
              ELSE { Pos(dx, Forward(p.color)) : dx \in {-1, 1} }

Ahead(p, d, n) == Pos(p.position.x + n * d.x, p.position.y + n * d.y)

\* Landing squares of the legal captures of p in the directions ds.
CapturesIn(p, ps, sz, ds) ==
    { Ahead(p, d, 2) : d \in { e \in ds : /\ OpponentAt(ps, p, Ahead(p, e, 1))
                                           /\ Inside(sz, Ahead(p, e, 2))
                                           /\ ~Occupied(ps, Ahead(p, e, 2)) } }

LegalCaptures(p, ps, sz) == CapturesIn(p, ps, sz, AllowedDirs(p))

LegalSteps(p, ps, sz) ==
    { Ahead(p, d, 1) : d \in { e \in AllowedDirs(p) : /\ Inside(sz, Ahead(p, e, 1))
                                                      /\ ~Occupied(ps, Ahead(p, e, 1)) } }

\* d is two diagonal steps from p over a piece of the other colour.
IsJumpOverOpponent(p, ps, d) ==
    /\ Abs(d.x - p.position.x) = 2
    /\ Abs(d.y - p.position.y) = 2
    /\ OpponentAt(ps, p, Pos((d.x + p.position.x) \div 2, (d.y + p.position.y) \div 2))

Range(seq) == { seq[k] : k \in DOMAIN seq }

\* The opponent's back rank, the row a piece is promoted on.
BackRank(color, sz) == IF color = Red THEN sz.y - 1 ELSE 0

Ids(ps) == { ps[i].id : i \in DOMAIN ps }

\* The square between two squares two diagonal steps apart.
Midpoint(a, b) == Pos((a.x + b.x) \div 2, (a.y + b.y) \div 2)

\* The move from square a to square b is a two-step jump (a one-step move).
IsJump(a, b) == Abs(b.x - a.x) = 2 /\ Abs(b.y - a.y) = 2

IsStep(a, b) == Abs(b.x - a.x) = 1 /\ Abs(b.y - a.y) = 1

\* The moves the rules give piece p: its captures if it has one, else its steps.
LegalMoves(p, ps, sz) ==
    IF LegalCaptures(p, ps, sz) # {} THEN LegalCaptures(p, ps, sz)
                                     ELSE LegalSteps(p, ps, sz)

\* The last click committed a move (a capture) of a piece still on the board.
Committed == lastClick.kind = "square" /\ OnBoard(pieces, lastClick.moved)

CommittedCapture == Committed /\ lastClick.capture

Mover == PieceOf(pieces, lastClick.moved)

-----------------------------------------------------------------------------
(* C1: no two pieces on the board have the same (x, y) coordinate, after   *)
(* any sequence of selections and commits from a placement on distinct     *)
(* squares inside the board.                                               *)
C1_NoSharedSquare ==
    \A i, j \in DOMAIN pieces : i # j => pieces[i].position # pieces[j].position

\* A capture was committed and the mover stands among other pieces.
C1_Witness ==
    /\ CommittedCapture
    /\ Len(pieces) >= 2
    /\ C1_NoSharedSquare

(* C2: after a committed capture that leaves the moved piece a legal       *)
(* capture from its new square, the turn does not pass: currentPlayer is   *)
(* unchanged, the piece stays selected, and every destination offered is a *)
(* two-step jump over an opponent piece.                                   *)
C2_ChainContinues ==
    [][ ( /\ lastClick'.kind = "square"
          /\ lastClick'.capture
          /\ LegalCaptures(PieceOf(pieces', lastClick'.moved), pieces', size') # {} )
        => /\ currentPlayer' = currentPlayer
           /\ selectedPiece' = selectedPiece
           /\ selectedPiece' = lastClick'.moved
           /\ highlightedSquares' # << >>
           /\ validMoves' = highlightedSquares'
           /\ \A d \in Range(highlightedSquares') :
                 IsJumpOverOpponent(PieceOf(pieces', lastClick'.moved), pieces', d) ]_vars

\* A capture was committed, the mover can capture again and is still selected.
C2_Witness ==
    /\ CommittedCapture
    /\ LegalCaptures(Mover, pieces, size) # {}
    /\ selectedPiece = lastClick.moved
    /\ currentPlayer = Mover.color

(* C3: after a committed capture that leaves the moved piece no legal      *)
(* capture from its new square, whether or not it has a step there, the    *)
(* turn passes in that commit: currentPlayer flips, nothing stays selected *)
(* and no destination is offered.                                          *)
C3_TurnPassesAfterLastCapture ==
    ( CommittedCapture /\ LegalCaptures(Mover, pieces, size) = {} )
    => /\ currentPlayer = otherPlayer(Mover.color)
       /\ selectedPiece = NoPiece
       /\ highlightedSquares = << >>

(* C4: while a capture continuation is pending for piece P (P captured and *)
(* the turn has not passed), selecting another piece of the same player is *)
(* rejected: the selection, the offered destinations, the board and        *)
(* currentPlayer stay as they are.                                         *)
C4_NoReselectionInChain ==
    [][ ( /\ CommittedCapture
          /\ currentPlayer = Mover.color
          /\ selectedPiece = lastClick.moved
          /\ lastClick'.kind = "piece"
          /\ lastClick'.color = currentPlayer )
        => UNCHANGED game ]_vars

(* C5: a piece with at least one legal capture is offered no non-capturing *)
(* step: for every piece of every reachable board, the moves generated for *)
(* it are all captures when it has one.                                    *)
C5_CapturePrecedence ==
    \A i \in DOMAIN pieces :
        LegalCaptures(pieces[i], pieces, size) # {}
        => /\ Range(allowedMoves(pieces[i], pieces, size))
                \subseteq LegalCaptures(pieces[i], pieces, size)
           /\ Range(allowedMoves(pieces[i], pieces, size))
                \cap LegalSteps(pieces[i], pieces, size) = {}

\* A selected piece with both a legal capture and a free step square is
\* offered its captures.
C5_Witness ==
    /\ selectedPiece # NoPiece
    /\ lastClick.kind = "piece"
    /\ LegalCaptures(PieceOf(pieces, selectedPiece), pieces, size) # {}
    /\ LegalSteps(PieceOf(pieces, selectedPiece), pieces, size) # {}
    /\ Range(highlightedSquares) = LegalCaptures(PieceOf(pieces, selectedPiece), pieces, size)

(* C6: for every board height, right after a commit the moved piece is a   *)
(* king exactly if it was a king before the commit or its new row is the   *)
(* opponent's back rank (height-1 for red, 0 for the other player).        *)
C6_KingIffBackRank ==
    [][ lastClick'.kind = "square"
        => ( PieceOf(pieces', lastClick'.moved).king
             <=> \/ PieceOf(pieces, lastClick'.moved).king
                 \/ PieceOf(pieces', lastClick'.moved).position.y
                       = BackRank(PieceOf(pieces', lastClick'.moved).color, size') ) ]_vars

(* C7: the king flag is monotonic: a piece that is a king is a king in     *)
(* every later state in which it is on the board.                          *)
C7_KingMonotonic ==
    [][ \A i \in DOMAIN pieces : \A j \in DOMAIN pieces' :
            ( pieces[i].id = pieces'[j].id /\ pieces[i].king ) => pieces'[j].king ]_vars

\* A king has just moved to a row that is no promotion row, and is a king.
C7_Witness ==
    /\ Committed
    /\ Mover.king
    /\ Mover.position.y # RedKingRow
    /\ Mover.position.y # BlueKingRow

(* C8: promotion comes before the continuation check: a non-king whose     *)
(* capture lands on the opponent's back rank is evaluated for further      *)
(* captures as a king, so a backward capture from the landing square keeps *)
(* the chain open.                                                         *)
C8_PromotedMidChain ==
    [][ ( /\ lastClick'.kind = "square"
          /\ lastClick'.capture
          /\ ~PieceOf(pieces, lastClick'.moved).king
          /\ PieceOf(pieces', lastClick'.moved).position.y
                = BackRank(PieceOf(pieces', lastClick'.moved).color, size')
          /\ CapturesIn(PieceOf(pieces', lastClick'.moved), pieces', size',
                        { Pos(dx, -Forward(PieceOf(pieces', lastClick'.moved).color))
                            : dx \in {-1, 1} }) # {} )
        => /\ PieceOf(pieces', lastClick'.moved).king
           /\ currentPlayer' = currentPlayer
           /\ selectedPiece' = lastClick'.moved
           /\ CapturesIn(PieceOf(pieces', lastClick'.moved), pieces', size',
                         { Pos(dx, -Forward(PieceOf(pieces', lastClick'.moved).color))
                             : dx \in {-1, 1} })
                \subseteq Range(highlightedSquares') ]_vars

(* C9: selecting a piece of the player who is not to move is rejected and  *)
(* changes nothing: selection, offered destinations, board and             *)
(* currentPlayer are as before.                                            *)
C9_OpponentSelectionRejected ==
    [][ ( lastClick'.kind = "piece" /\ lastClick'.color # currentPlayer )
        => UNCHANGED game ]_vars

\* An opponent's piece was clicked while a piece was selected with its
\* destinations offered, and they still are.
C9_Witness ==
    /\ lastClick.kind = "piece"
    /\ lastClick.color # currentPlayer
    /\ selectedPiece # NoPiece
    /\ highlightedSquares # << >>

C11_IllegalMoveRejected ==
    [][ /\ lastClick'.kind = "board" => UNCHANGED game
        /\ ( pieces' # pieces \/ currentPlayer' # currentPlayer )
           => /\ selectedPiece # NoPiece
              /\ OnBoard(pieces', selectedPiece)
              /\ PieceOf(pieces', selectedPiece).position
                    \in Range(highlightedSquares) ]_vars

\* A click on a square that is not offered, made while a piece is selected
\* and destinations are offered, has left them so.
C11_Witness ==
    /\ lastClick.kind = "board"
    /\ selectedPiece # NoPiece
    /\ highlightedSquares # << >>
    /\ PieceOf(pieces, selectedPiece).position \notin Range(highlightedSquares)

(* C12: selecting a piece and generating its moves mutates nothing of the  *)
(* game: no piece's position, colour or king flag, the set of pieces, the  *)
(* board size and currentPlayer are as before the selection.               *)
C12_SelectionMutatesNothing ==
    [][ \A i \in DOMAIN pieces :
            ( ClickPiece(i) \/ lastClick'.kind = "piece" )
            => UNCHANGED <<size, pieces, currentPlayer>> ]_vars

\* A piece has just been selected and its legal destinations generated.
C12_Witness ==
    /\ lastClick.kind = "piece"
    /\ selectedPiece # NoPiece
    /\ Range(validMoves) = LegalCaptures(PieceOf(pieces, selectedPiece), pieces, size)
                             \cup LegalSteps(PieceOf(pieces, selectedPiece), pieces, size)
    /\ validMoves # << >>

(* C13: for a piece with no legal capture the moves generated are exactly  *)
(* the squares one diagonal step away in an allowed direction (the two     *)
(* forward diagonals for a non-king, forward being +y for red and -y       *)
(* otherwise; all four for a king) that are inside the board and           *)
(* unoccupied; a non-king is offered no backward step.                     *)
C13_StepsExact ==
    \A i \in DOMAIN pieces :
        LegalCaptures(pieces[i], pieces, size) = {}
        => /\ Range(allowedMoves(pieces[i], pieces, size))
                = LegalSteps(pieces[i], pieces, size)
           /\ ~pieces[i].king
              => \A d \in Range(allowedMoves(pieces[i], pieces, size)) :
                    d.y - pieces[i].position.y = Forward(pieces[i].color)

\* A selected non-king with no capture is offered a forward step while a
\* square behind it is free.
C13_Witness ==
    /\ lastClick.kind = "piece"
    /\ selectedPiece # NoPiece
    /\ ~PieceOf(pieces, selectedPiece).king
    /\ LegalCaptures(PieceOf(pieces, selectedPiece), pieces, size) = {}
    /\ highlightedSquares # << >>
    /\ Range(highlightedSquares) = LegalSteps(PieceOf(pieces, selectedPiece), pieces, size)
    /\ \E dx \in {-1, 1} :
          LET back == Pos(PieceOf(pieces, selectedPiece).position.x + dx,
                          PieceOf(pieces, selectedPiece).position.y
                            - Forward(PieceOf(pieces, selectedPiece).color))
          IN  Inside(size, back) /\ ~Occupied(pieces, back)

(* C14: the capture destinations generated for a piece, when it is         *)
(* selected and at every hop of its chain, are exactly the squares two     *)
(* diagonal steps away in an allowed direction whose intermediate square   *)
(* holds a piece of the other colour and whose landing square is inside    *)
(* the board and unoccupied; when there is one, all of them are offered.   *)
C14_CapturesExact ==
    ( selectedPiece # NoPiece /\ ( lastClick.kind = "piece" \/ CommittedCapture ) )
    => LET p == PieceOf(pieces, selectedPiece)
           captures == LegalCaptures(p, pieces, size)
       IN  /\ { d \in Range(validMoves) : IsJump(p.position, d) } = captures
           /\ Range(getCaptureMoves(p, pieces, size, directions(p))) = captures
           /\ captures # {} => Range(highlightedSquares) = captures

\* At the second hop of a chain the mover is offered its capture, once.
C14_Witness ==
    /\ CommittedCapture
    /\ LegalCaptures(Mover, pieces, size) # {}
    /\ Range(highlightedSquares) = LegalCaptures(Mover, pieces, size)
    /\ Len(highlightedSquares) = Cardinality(LegalCaptures(Mover, pieces, size))

(* C15: a committed capture removes exactly one piece, the opponent piece  *)
(* on the jumped square; a committed step removes none; every piece other  *)
(* than the mover and the captured one keeps id, position, colour and king *)
(* flag (the mover keeps id and colour), and no piece is added.            *)
C15_CaptureRemovesJumped ==
    [][ ( lastClick'.kind = "square" /\ pieces' # pieces )
        => LET old == PieceOf(pieces, lastClick'.moved)
               new == PieceOf(pieces', lastClick'.moved)
           IN  /\ OnBoard(pieces, lastClick'.moved)
               /\ OnBoard(pieces', lastClick'.moved)
               /\ Ids(pieces') \subseteq Ids(pieces)
               /\ Len(pieces') = Cardinality(Ids(pieces'))
               /\ new.id = old.id /\ new.color = old.color
               /\ \A j \in DOMAIN pieces' :
                     pieces'[j].id # old.id => pieces'[j] = PieceOf(pieces, pieces'[j].id)
               /\ IsJump(old.position, new.position)
                  => \E c \in DOMAIN pieces :
                        /\ pieces[c].position = Midpoint(old.position, new.position)
                        /\ pieces[c].color # old.color
                        /\ Ids(pieces') = Ids(pieces) \ { pieces[c].id }
               /\ ~IsJump(old.position, new.position)
                  => Ids(pieces') = Ids(pieces) ]_vars

\* A capture was committed beside a third piece, which is still there.
C15_Witness ==
    /\ CommittedCapture
    /\ Len(pieces) >= 2
    /\ \E j \in DOMAIN pieces : pieces[j].id # lastClick.moved

(* C16: committing a non-capturing step always ends the turn:              *)
(* currentPlayer becomes the other player and no piece is selected.        *)
C16_StepEndsTurn ==
    [][ ( /\ lastClick'.kind = "square"
          /\ IsStep(PieceOf(pieces, lastClick'.moved).position,
                    PieceOf(pieces', lastClick'.moved).position) )
        => /\ currentPlayer' = (IF currentPlayer = Red THEN Blue ELSE Red)
           /\ selectedPiece' = NoPiece
           /\ highlightedSquares' = << >>
           /\ validMoves' = << >> ]_vars

\* A step was committed; nothing is selected and the other player is to move.
C16_Witness ==
    /\ Committed
    /\ ~lastClick.capture
    /\ selectedPiece = NoPiece
    /\ highlightedSquares = << >>
    /\ currentPlayer # Mover.color

(* C17: on the 8x8 board with a king of the player to move on (2,4),       *)
(* opponent pieces on (3,5) and (5,7) and (4,6) empty, committing          *)
(* (2,4)->(4,6) removes the piece on (3,5); (5,7) is not capturable from   *)
(* (4,6), the landing square (6,8) being outside the board, so no          *)
(* continuation is required: the turn passes to the opponent and nothing   *)
(* stays selected.                                                         *)
C17_ScenarioTurnPasses ==
    [][ ( /\ size = [x |-> 8, y |-> 8]
          /\ selectedPiece # NoPiece
          /\ PieceOf(pieces, selectedPiece).king
          /\ PieceOf(pieces, selectedPiece).position = Pos(2, 4)
          /\ OpponentAt(pieces, PieceOf(pieces, selectedPiece), Pos(3, 5))
          /\ OpponentAt(pieces, PieceOf(pieces, selectedPiece), Pos(5, 7))
          /\ ~Occupied(pieces, Pos(4, 6))
          /\ lastClick'.kind = "square"
          /\ PieceOf(pieces', selectedPiece).position = Pos(4, 6) )
        => /\ ~Occupied(pieces', Pos(3, 5))
           /\ Occupied(pieces', Pos(5, 7))
           /\ Pos(6, 8) \notin LegalCaptures(PieceOf(pieces', selectedPiece), pieces', size')
           /\ LegalCaptures(PieceOf(pieces', selectedPiece), pieces', size') = {}
           /\ currentPlayer' = (IF currentPlayer = Red THEN Blue ELSE Red)
           /\ selectedPiece' = NoPiece
           /\ highlightedSquares' = << >> ]_vars

(* C18: after a commit the moves held for the moved piece are derived from *)
(* the board after the move: every one of them is legal for the piece on   *)
(* its new square, with its new king flag and without the captured piece,  *)
(* and after a capture they are all of its legal moves there.              *)
C18_FreshMovesAfterCommit ==
    [][ ( lastClick'.kind = "square" /\ pieces' # pieces )
        => LET old == PieceOf(pieces, lastClick'.moved)
               new == PieceOf(pieces', lastClick'.moved)
               legal == LegalMoves(new, pieces', size')
           IN  /\ validMoves' = highlightedSquares'
               /\ validMoves' # << >> => Range(validMoves') \subseteq legal
               /\ IsJump(old.position, new.position)
                  => Range(validMoves') = legal ]_vars

\* A capture was committed and the mover, still selected, holds the moves
\* of its new square.
C18_Witness ==
    /\ CommittedCapture
    /\ selectedPiece = lastClick.moved
    /\ validMoves # << >>
    /\ validMoves = highlightedSquares
    /\ Range(validMoves) = LegalMoves(Mover, pieces, size)

\* A capture chain is open: the piece that captured is still selected.
ChainOpen == CommittedCapture /\ selectedPiece = lastClick.moved

(* C19: mandatory capture is per piece only: with no chain open, a piece   *)
(* of the player to move that has a step and no capture is selected on a   *)
(* click and offered its steps, and its step is committed on the next      *)
(* click, even while another piece of the same player has a capture.       *)
C19_PerPieceMandatoryCapture ==
    ~ChainOpen
    => LET capturers == { j \in DOMAIN pieces :
                            /\ pieces[j].color = currentPlayer
                            /\ LegalCaptures(pieces[j], pieces, size) # {} }
       IN  /\ \A i \in DOMAIN pieces :
                 ( /\ capturers # {}
                   /\ pieces[i].color = currentPlayer
                   /\ i \notin capturers
                   /\ LegalSteps(pieces[i], pieces, size) # {} )
                 => ENABLED ( /\ ClickPiece(i)
                              /\ selectedPiece' = pieces[i].id
                              /\ Range(highlightedSquares')
                                    = LegalSteps(pieces[i], pieces, size)
                              /\ pieces' = pieces )
           /\ ( /\ capturers # {}
                /\ lastClick.kind = "piece"
                /\ selectedPiece # NoPiece
                /\ findById(pieces, selectedPiece) \notin capturers )
              => \A d \in LegalSteps(PieceOf(pieces, selectedPiece), pieces, size) :
                    ENABLED ( /\ \E k \in DOMAIN highlightedSquares : ClickSquare(k)
                              /\ PieceOf(pieces', selectedPiece).position = d
                              /\ Len(pieces') = Len(pieces)
                              /\ currentPlayer' # currentPlayer )

\* A piece with steps and no capture is selected and offered its steps while
\* another piece of its colour has a capture, and a step can be committed.
C19_Witness ==
    /\ lastClick.kind = "piece"
    /\ selectedPiece # NoPiece
    /\ LegalCaptures(PieceOf(pieces, selectedPiece), pieces, size) = {}
    /\ highlightedSquares # << >>
    /\ Range(highlightedSquares) = LegalSteps(PieceOf(pieces, selectedPiece), pieces, size)
    /\ \E j \in DOMAIN pieces :
          /\ pieces[j].id # selectedPiece
          /\ pieces[j].color = currentPlayer
          /\ LegalCaptures(pieces[j], pieces, size) # {}
    /\ ENABLED ( /\ \E k \in DOMAIN highlightedSquares : ClickSquare(k)
                 /\ selectedPiece' = NoPiece
                 /\ currentPlayer' # currentPlayer )

\* The column and the row of the square a piece mesh stands on.
Column(mesh) == (mesh.position.x + width - 1) \div 2

Row(mesh) == (mesh.position.z + height - 1) \div 2

(* C20: on every board of even width and height of at least 4, addPieces   *)
(* puts each player's pieces only on dark squares (column + row odd) of    *)
(* that player's three back rows, and no two pieces on the same square.    *)
C20_StandardSetup ==
    ( width % 2 = 0 /\ height % 2 = 0 /\ width >= 4 /\ height >= 4 )
    => /\ \A k \in DOMAIN scenePieces :
             /\ (Column(scenePieces[k]) + Row(scenePieces[k])) % 2 = 1
             /\ Column(scenePieces[k]) \in 0..(width - 1)
             /\ scenePieces[k].color = colorB => Row(scenePieces[k]) \in 0..2
             /\ scenePieces[k].color = colorA
                => Row(scenePieces[k]) \in (height - 3)..(height - 1)
       /\ \A k, l \in DOMAIN scenePieces :
             k # l => scenePieces[k].position # scenePieces[l].position

(* C23: selecting a piece of the current player whose type is not          *)
(* 'checker' fails and leaves the selected piece and the highlighted       *)
(* destinations as they were before the attempt, so that a commit moves a  *)
(* piece only to a destination generated for that piece.                   *)
C23_UnsupportedTypeLeavesSelection ==
    [][ /\ \A i \in DOMAIN pieces :
              ( /\ ClickPiece(i)
                /\ pieces[i].color = currentPlayer
                /\ pieces[i].type # "checker"
                /\ selectedPiece # NoPiece
                /\ highlightedSquares # << >> )
              => /\ selectedPiece' = selectedPiece
                 /\ highlightedSquares' = highlightedSquares
                 /\ validMoves' = validMoves
        /\ ( lastClick'.kind = "square" /\ pieces' # pieces )
           => PieceOf(pieces', lastClick'.moved).position
                 \in LegalMoves(PieceOf(pieces, lastClick'.moved), pieces, size) ]_vars

\* The boardConfig object as it is in the current state.
BoardConfigNow == [size |-> size, pieces |-> pieces]

(* C27: the extracted rule module preserves behaviour: for every piece     *)
(* (either colour, king or not) of every placement, and of every board     *)
(* whose piece list has just been mutated by a capture, allowedMoves of    *)
(* utils/rules.ts returns the destinations of the inline allowedMoves, in  *)
(* the same order.                                                         *)
C27_ExtractedRulesEquivalent ==
    ( lastClick.kind = "none" \/ CommittedCapture )
    => \A i \in DOMAIN pieces :
          allowedMovesR(pieces[i], BoardConfigNow) = allowedMoves(pieces[i], pieces, size)

\* After a capture has spliced the piece list, both modules give the mover
\* the same, non-empty, moves.
C27_Witness ==
    /\ CommittedCapture
    /\ Len(pieces) >= 2
    /\ allowedMovesR(Mover, BoardConfigNow) # << >>
    /\ allowedMovesR(Mover, BoardConfigNow) = allowedMoves(Mover, pieces, size)
    /\ validMoves = allowedMovesR(Mover, BoardConfigNow)

\* The player to move owns a piece and none of its pieces has a legal move.
Stuck ==
    /\ \E i \in DOMAIN pieces : pieces[i].color = currentPlayer
    /\ \A i \in DOMAIN pieces :
          pieces[i].color = currentPlayer => LegalMoves(pieces[i], pieces, size) = {}

(* C22: while the player to move owns pieces and none of them has a legal  *)
(* move, no click changes the board or currentPlayer: the turn is not      *)
(* passed and the game is not ended, so the player stays stuck for ever.   *)
C22_StuckPlayerStaysStuck ==
    [][ UNCHANGED <<size, pieces, currentPlayer>> \/ ~Stuck ]_vars

\* A piece of a stuck player has been clicked: it is selected and nothing
\* is offered.
C22_Witness ==
    /\ Stuck
    /\ lastClick.kind = "piece"
    /\ selectedPiece # NoPiece
    /\ highlightedSquares = << >>
    /\ \E i \in DOMAIN pieces : pieces[i].color # currentPlayer

(* C25: a selected piece is on the board and of the colour of              *)
(* currentPlayer: it is never a captured piece, nor a piece of the player  *)
(* whose turn has ended.                                                   *)
C25_SelectedIsOwnPieceOnBoard ==
    selectedPiece # NoPiece
    => /\ OnBoard(pieces, selectedPiece)
       /\ PieceOf(pieces, selectedPiece).color = currentPlayer

\* After a capture the mover is still selected, on the board, and its
\* player is still to move.
C25_Witness ==
    /\ CommittedCapture
    /\ selectedPiece = lastClick.moved
    /\ OnBoard(pieces, selectedPiece)
    /\ Mover.color = currentPlayer

\* The parity of the square a piece stands on.
Parity(piece) == (piece.position.x + piece.position.y) % 2

(* C26: every piece stays on squares of one (x + y) parity, that of the    *)
(* square it started on, and inside the board (0 <= x < width,             *)
(* 0 <= y < height), after any sequence of commits.                        *)
C26_ParityAndBoundsKept ==
    [][ \/ UNCHANGED <<size, pieces>>
        \/ \A j \in DOMAIN pieces' :
            /\ Inside(size', pieces'[j].position)
            /\ OnBoard(pieces, pieces'[j].id)
            /\ Parity(pieces'[j]) = Parity(PieceOf(pieces, pieces'[j].id)) ]_vars

\* A piece has jumped and stands inside the board on a square of the
\* starting parity, as does another piece.
C26_Witness ==
    /\ CommittedCapture
    /\ Parity(Mover) = 0
    /\ Inside(size, Mover.position)
    /\ \E i \in DOMAIN pieces : pieces[i].id # Mover.id /\ Parity(pieces[i]) = 0

\* The number of pieces on ps that are not of the colour `player`.
Opponents(ps, player) == Cardinality({ i \in DOMAIN ps : ps[i].color # player })

(* C24: every commit removes one opponent piece or flips currentPlayer (or *)
(* both), and a turn ends after finitely many commits: the commits one     *)
(* player makes in a row are at most the opponent pieces on the board at   *)
(* the start of the turn, plus one.                                        *)
C24_TurnEndsAfterFinitelyManyCommits ==
    [][ ( lastClick'.kind = "square" /\ pieces' # pieces )
        => /\ \/ Opponents(pieces', currentPlayer) = Opponents(pieces, currentPlayer) - 1
              \/ currentPlayer' # currentPlayer
           /\ Len(pieces') >= Len(pieces) - 1
           /\ turnLog.commits + 1 <= turnLog.opponents + 1
           /\ turnLog.opponents = Opponents(pieces, currentPlayer) + turnLog.commits ]_vars

\* A turn is in its second commit at least: the player has captured and is
\* still to move.
C24_Witness ==
    /\ Committed
    /\ turnLog.commits >= 1
    /\ turnLog.commits <= turnLog.opponents
    /\ currentPlayer = Mover.color

(* C28: in Checkers.svelte as the page mounts it, every commit, capturing   *)
(* or not, is made by a piece of currentPlayer, clears the selection and   *)
(* flips currentPlayer, and no other click changes currentPlayer: the two  *)
(* players alternate commits strictly, even when the capturing piece could *)
(* capture again.                                                          *)
C28_EveryCommitPassesTheTurn ==
    [][ IF pieces' # pieces
        THEN /\ lastClick'.kind = "square"
             /\ lastClick'.color = currentPlayer
             /\ selectedPiece' = NoPiece
             /\ validMoves' = << >>
             /\ highlightedSquares' = << >>
             /\ currentPlayer' = (IF currentPlayer = Red THEN Blue ELSE Red)
        ELSE currentPlayer' = currentPlayer ]_vars

\* A capture has been committed, the capturing piece has a further capture
\* from its landing square, and the turn has passed with nothing selected.
C28_Witness ==
    /\ CommittedCapture
    /\ LegalCaptures(Mover, pieces, size) # {}
    /\ selectedPiece = NoPiece
    /\ currentPlayer # Mover.color

\* The direction of the rows a Canvas.svelte piece advances in: colorB
\* starts on the first rows, colorA on the last.
ForwardZ(mesh) == IF mesh.color = colorB THEN 1 ELSE -1

\* d is an empty square centre of the board.
FreeSquare(d) ==
    /\ d \in squareCentres
    /\ \A k \in DOMAIN scenePieces : scenePieces[k].position # d

\* d is one diagonal step forward of the mesh (one square is 2).
ForwardStepOf(mesh, d) ==
    /\ d.z - mesh.position.z = 2 * ForwardZ(mesh)
    /\ d.x - mesh.position.x \in {2, -2}

\* d is two diagonal steps forward of the mesh, over an adjacent piece of
\* the other colour.
ForwardJumpOf(mesh, d) ==
    /\ d.z - mesh.position.z = 4 * ForwardZ(mesh)
    /\ d.x - mesh.position.x \in {4, -4}
    /\ \E k \in DOMAIN scenePieces :
          /\ scenePieces[k].color # mesh.color
          /\ scenePieces[k].position =
                [x |-> (mesh.position.x + d.x) \div 2, z |-> (mesh.position.z + d.z) \div 2]

(* C21: in Canvas.svelte every destination getLegalMoves offers for a      *)
(* non-king piece, moved before or not, is one forward diagonal step onto  *)
(* an empty in-board square or a two-step forward jump over an adjacent    *)
(* opponent piece onto an empty in-board square.                           *)
C21_NonKingForwardStepOrJump ==
    [][ ( ~isPieceLifted /\ isPieceLifted' /\ ~scenePieces[selectedPiece].isKing )
        => \A n \in DOMAIN highlightedSquares' :
              /\ FreeSquare(highlightedSquares'[n])
              /\ \/ ForwardStepOf(scenePieces[selectedPiece], highlightedSquares'[n])
                 \/ ForwardJumpOf(scenePieces[selectedPiece], highlightedSquares'[n]) ]_vars

(* C29: under any interleaving of mouse-move (hover), mouse-down and       *)
(* mouse-up events, the piece dropped at mouse-up is the piece lifted at   *)
(* mouse-down, a piece of currentPlayer: a hover over another piece while  *)
(* a piece is lifted does not replace the selected piece.                  *)
C29_DroppedPieceIsLiftedPiece ==
    [][ /\ ( isPieceLifted /\ isPieceLifted' )
           => selectedPiece' = selectedPiece
        /\ ( isPieceLifted /\ ~isPieceLifted' )
           => /\ selectedPiece = dragLog.lifted
              /\ scenePieces[selectedPiece].color = currentPlayer ]_vars

=============================================================================
